---- MODULE Spec2Model ----
(***************************************************************************)
(* Model of the notebook "Model selection with Probabilistic PCA and       *)
(* Factor Analysis (FA)": the kernel's global namespace and the code       *)
(* cells that act on it (data synthesis, model fitting definitions, the    *)
(* scoring/plot loop, the two figure cells).                               *)
(*                                                                         *)
(* Abstractions.  A 1000x50 array is represented by an integer fingerprint *)
(* in the ring Z_RngMod; array arithmetic (+, *, dot) is the ring's        *)
(* arithmetic.  The Mersenne twister is a linear congruential generator    *)
(* over the same ring.  A double is a binary floating-point number with a  *)
(* MantBits-bit significand (53 in the notebook), rounded to nearest,      *)
(* ties to even, and written as its numerator over 2^MantBits.  The        *)
(* estimators of the external library are deterministic functions of       *)
(* their parameters and their data whose numerics are unknown: `lib`       *)
(* selects one such function for the whole session.  A mean score is       *)
(* written as its numerator over NFolds.                                   *)
(***************************************************************************)
EXTENDS Integers, Sequences, FiniteSets, TLC

VARIABLES
  ns,                    \* names defined in the kernel's global namespace
  lib,                   \* the numerics of the external estimators
  rng,                   \* state of the seeded random source
  heap,                  \* array objects: allocation site -> contents
  U, X, X_homo, X_hetero,\* U: contents; X, X_homo, X_hetero: references
  sigmas,                \* per-feature noise standard deviations
  n_components,          \* the component-count grid
  pca_scores, fa_scores,
  n_components_pca, n_components_fa, n_components_pca_mle,
  title, data, i, fig,
  pc, items, it,         \* position in the loop cell, its list, its iterator
  created, finished, first, log,   \* history
  u_draw, sig_out,       \* the sigma formula applied to arbitrary draws
  sw_X, sw_done, sw_est, sw_pca, sw_fa   \* the grid sweep in arbitrary order

kernelVars == <<ns, rng, heap, U, X, X_homo, X_hetero, sigmas, n_components,
                pca_scores, fa_scores, n_components_pca, n_components_fa,
                n_components_pca_mle, title, data, i, fig, pc, items, it,
                created, finished, first, log>>
sigmaVars == <<u_draw, sig_out>>
sweepVars == <<sw_X, sw_done, sw_est, sw_pca, sw_fa>>
vars == <<lib, kernelVars, sigmaVars, sweepVars>>

----------------------------------------------------------------------------
\* Program constants.
n_samples == 1000
n_features == 50
rank == 10
sigma == 1
Seed == 42
GridStep == 5
NumShrinkages == 30
NFolds == 3

\* Bounds of the model.
MantBits == 4
SigmaFeatures == 2
RngMod == 61
NumLibs == 6
ScoreSpan == 7
MaxRuns == 2
SweepLibs == 2

----------------------------------------------------------------------------
\* Arithmetic helpers.
RECURSIVE Pow2(_)
Pow2(n) == IF n = 0 THEN 1 ELSE 2 * Pow2(n - 1)

RECURSIVE BitLen(_)
BitLen(m) == IF m = 0 THEN 0 ELSE 1 + BitLen(m \div 2)

RECURSIVE SumSeq(_)
SumSeq(s) == IF s = <<>> THEN 0 ELSE Head(s) + SumSeq(Tail(s))

\* Python's min() and max() of a non-empty list.
PyMin(s) == CHOOSE v \in {s[k] : k \in 1..Len(s)} : \A k \in 1..Len(s) : v <= s[k]
PyMax(s) == CHOOSE v \in {s[k] : k \in 1..Len(s)} : \A k \in 1..Len(s) : v >= s[k]

\* The exact real m / 2^MantBits rounded to a double: to the nearest multiple
\* of the unit in the last place of its binade, ties to the even significand.
RoundNearestEven(m) ==
  LET ulp == Pow2(IF BitLen(m) > MantBits THEN BitLen(m) - MantBits ELSE 0)
      lo  == (m \div ulp) * ulp
      rem == m - lo
  IN  IF 2 * rem < ulp THEN lo
      ELSE IF 2 * rem > ulp THEN lo + ulp
      ELSE IF (lo \div ulp) % 2 = 0 THEN lo ELSE lo + ulp

\* rng.rand(): a uniform draw k / 2^MantBits with k in 0 .. 2^MantBits - 1.
RandValues == 0 .. (Pow2(MantBits) - 1)

\* sigma * u + sigma / 2.  (each operation rounded as a double)
SigmaNoOffset(u) == RoundNearestEven(sigma * u)
SigmaOf(u) ==
  RoundNearestEven(RoundNearestEven(sigma * u) + (sigma * Pow2(MantBits)) \div 2)

----------------------------------------------------------------------------
\* The seeded random source.
SeedRngStale == IF "rng" \in ns THEN rng ELSE Seed % RngMod
SeedRng == Seed % RngMod

RngNext(s) == (5 * s + 3) % RngMod

RECURSIVE RngSkip(_, _)
RngSkip(s, n) == IF n = 0 THEN s ELSE RngSkip(RngNext(s), n - 1)

\* rng.rand(n_features): the per-feature draws, from successive states.
RandVector(s) == [j \in 1..SigmaFeatures |-> RngSkip(s, j) % Pow2(MantBits)]

\* linalg.svd(A)[0], np.dot(Z, U[:, :rank].T), X + noise * scale.
SvdU(a) == (a * a + 1) % RngMod
Project(z, u) == (z * u + rank) % RngMod
AddNoise(x, noise, scale) == (x + noise * scale) % RngMod

----------------------------------------------------------------------------
\* np.arange(start, stop, step): start, start + step, ... below stop.
ArangeInclusive(start, stop, step) ==
  [k \in 1..((stop - start) \div step + 1) |-> start + (k - 1) * step]
Arange(start, stop, step) ==
  [k \in 1..((stop - start + step - 1) \div step) |-> start + (k - 1) * step]

\* np.argmax: the 0-based index of the first occurrence of the maximum.
RECURSIVE ArgMaxScan(_, _, _)
ArgMaxScan(s, k, best) ==
  IF k > Len(s) THEN best
  ELSE ArgMaxScan(s, k + 1, IF s[k] > s[best] THEN k ELSE best)

RECURSIVE ArgMaxScanLast(_, _, _)
ArgMaxScanLast(s, k, best) ==
  IF k > Len(s) THEN best
  ELSE ArgMaxScanLast(s, k + 1, IF s[k] >= s[best] THEN k ELSE best)

NpArgMaxLast(s) == ArgMaxScanLast(s, 2, 1) - 1
NpArgMax(s) == ArgMaxScan(s, 2, 1) - 1

\* np.mean of the NFolds fold scores, as its numerator over NFolds.
NpMean(s) == SumSeq(s)

----------------------------------------------------------------------------
\* The external estimators.  An estimator object is a record of its kind and
\* its parameters; n_components is <<>> for None and <<n>> for n.
KindCode(kind) ==
  CASE kind = "PCA" -> 1
    [] kind = "FactorAnalysis" -> 2
    [] kind = "ShrunkCovariance" -> 3
    [] kind = "LedoitWolf" -> 4

\* The parameter a fit reads: n_components (None retains every component),
\* the shrinkage candidate's index, or nothing.
FitParam(est) ==
  CASE est.kind = "PCA" ->
         IF est.n_components = <<>>
         THEN (IF n_samples < n_features THEN n_samples ELSE n_features)
         ELSE est.n_components[1]
    [] est.kind = "FactorAnalysis" ->
         IF est.n_components = <<>> THEN n_features ELSE est.n_components[1]
    [] est.kind = "ShrunkCovariance" -> est.shrinkage
    [] est.kind = "LedoitWolf" -> 0

\* The held-out log-likelihood of one fold: a function of the estimator's
\* kind and parameter, the data and the fold, fixed by `lib`.
FoldScore(kind, p, xv, f) ==
  0 - ((lib * (3 + KindCode(kind)) + p * (1 + lib) + xv * 5 + f * KindCode(kind)
          + (p \div GridStep) * (p \div GridStep)) % ScoreSpan)
    - ((lib * KindCode(kind)) % 4) * 2

\* cross_val_score(est, X): fits clones of est on the training folds; est and
\* X are left as they are.  The NFolds fold scores.
CrossValScore(est, xv) ==
  [f \in 1..NFolds |-> FoldScore(est.kind, FitParam(est), xv, f)]

\* PCA(svd_solver='full', n_components='mle').fit(X).n_components_
MleRank(xv) == (lib * 7 + xv * 3 + 1) % n_features

\* What a fit leaves in the array it is given (copy=True: the array itself).
FitCentersInPlace(h, ref) == [h EXCEPT ![ref] = (h[ref] + 1) % RngMod]
FitLeavesData(h, ref) == h

----------------------------------------------------------------------------
\* compute_scores.
NewEstimators ==
  [pca |-> [kind |-> "PCA", n_components |-> <<>>],
   fa  |-> [kind |-> "FactorAnalysis", n_components |-> <<>>]]

\* One iteration of the sweep: configure both estimators, then score both.
SweepIterStale(est, n, xv) ==
  [est |-> [pca |-> [est.pca EXCEPT !.n_components = <<n>>],
            fa  |-> [est.fa EXCEPT !.n_components = <<n>>]],
   p   |-> NpMean(CrossValScore(est.pca, xv)),
   f   |-> NpMean(CrossValScore(est.fa, xv))]
SweepIterFaUnset(est, n, xv) ==
  [est |-> [pca |-> [est.pca EXCEPT !.n_components = <<n>>], fa |-> est.fa],
   p   |-> NpMean(CrossValScore([est.pca EXCEPT !.n_components = <<n>>], xv)),
   f   |-> NpMean(CrossValScore(est.fa, xv))]
SweepIter(est, n, xv) ==
  LET e == [pca |-> [est.pca EXCEPT !.n_components = <<n>>],
            fa  |-> [est.fa EXCEPT !.n_components = <<n>>]]
  IN  [est |-> e,
       p   |-> NpMean(CrossValScore(e.pca, xv)),
       f   |-> NpMean(CrossValScore(e.fa, xv))]

RECURSIVE ScoreLoop(_, _, _, _, _)
ScoreLoop(est, k, ps, fs, xv) ==
  IF k > Len(n_components) THEN <<ps, fs>>
  ELSE LET r == SweepIter(est, n_components[k], xv)
       IN  ScoreLoop(r.est, k + 1, Append(ps, r.p), Append(fs, r.f), xv)

ComputeScores(xv) == ScoreLoop(NewEstimators, 1, <<>>, <<>>, xv)

\* shrunk_cov_score: grid search over the shrinkages (the first best
\* candidate wins), then the mean score of the best estimator.
ShrunkCovScore(xv) ==
  LET cand == [s \in 1..NumShrinkages |->
                 NpMean(CrossValScore([kind |-> "ShrunkCovariance", shrinkage |-> s], xv))]
      best == NpArgMax(cand) + 1
  IN  NpMean(CrossValScore([kind |-> "ShrunkCovariance", shrinkage |-> best], xv))

\* lw_score.
LwScore(xv) == NpMean(CrossValScore([kind |-> "LedoitWolf"], xv))

----------------------------------------------------------------------------
\* The data synthesis cell, from the state the random source is seeded to.
HomoTitle == "Homoscedastic Noise"
HeteroTitle == "Heteroscedastic Noise"

Synthesize(s0) ==
  LET s1  == RngNext(s0)                       \* rng.randn(n_features, n_features)
      u   == SvdU(s1)
      s2  == RngNext(s1)                       \* rng.randn(n_samples, rank)
      sig == Project(s2, u)
      s3  == RngNext(s2)                       \* rng.randn(n_samples, n_features)
      hom == AddNoise(sig, s3, sigma)
      uv  == RandVector(s3)                    \* rng.rand(n_features)
      sgs == [j \in 1..SigmaFeatures |-> SigmaOf(uv[j])]
      s4  == RngSkip(s3, SigmaFeatures)
      s5  == RngNext(s4)                       \* rng.randn(n_samples, n_features)
      het == AddNoise(sig, s5, SumSeq(sgs))
  IN  [rng |-> s5, U |-> u, sig |-> sig, homo |-> hom, hetero |-> het, sigmas |-> sgs]

SynthNames == {"n_samples", "n_features", "rank", "sigma", "rng", "U", "X",
               "X_homo", "X_hetero", "sigmas"}
FitNames == {"n_components", "compute_scores", "shrunk_cov_score", "lw_score"}
LoopNames == {"X", "title", "pca_scores", "fa_scores", "n_components_pca",
              "n_components_fa", "pca", "n_components_pca_mle", "pcascores",
              "fascores", "truth", "pca_cv", "factor_analysis", "pca_mle",
              "shrunk_covariance", "ledoit_wolf"}

\* go.Scatter(x=..., y=..., name=...); `from` records the array the trace was
\* computed from.
Scatter(label, num, x, y, ref) ==
  [name |-> label, num |-> num, x |-> x, y |-> y, from |-> ref]

\* y=[min(pca_scores)-1, max(fa_scores)+1] of the vertical reference lines.
VLineY(ps, fs) == <<PyMin(ps) - 1 * NFolds, PyMax(fs) + 1 * NFolds>>

\* data = [[],[]] and i += 1.
KeptData == IF "data" \in ns THEN data ELSE <<<<>>, <<>>>>
FreshData == <<<<>>, <<>>>>
NextIndex(k) == k + 1

\* The loop's list, built once when the loop starts.
LoopItems == <<[ref |-> X_homo, title |-> HomoTitle],
               [ref |-> X_hetero, title |-> HeteroTitle]>>

\* The eight traces one iteration appends, for the array `ref` with contents xv.
\* 'LedoitWolf MLE' % n_components_pca_mle has no conversion to fill and its
\* argument is a NumPy integer, which supports subscription: the result is the
\* string itself (the recorded run of the cell shows no error).
Traces(ref, xv, ps, fs, ncp, ncf, mle) ==
  LET vy  == VLineY(ps, fs)
      hx  == <<PyMin(n_components), PyMax(n_components)>>
      shr == ShrunkCovScore(xv)
      lw  == LwScore(xv)
  IN  << Scatter("PCA scores", <<>>, n_components, ps, ref),
         Scatter("FA scores", <<>>, n_components, fs, ref),
         Scatter("TRUTH", <<rank>>, <<rank, rank>>, vy, ref),
         Scatter("PCA CV", <<ncp>>, <<ncp, ncp>>, vy, ref),
         Scatter("FactorAnalysis CV", <<ncf>>, <<ncf, ncf>>, vy, ref),
         Scatter("PCA MLE", <<mle>>, <<mle, mle>>, vy, ref),
         Scatter("Shrunk Covariance MLE", <<>>, hx, <<shr, shr>>, ref),
         Scatter("LedoitWolf MLE", <<>>, hx, <<lw, lw>>, ref) >>

\* How many times the synthesis cell and the loop cell have run to their end.
synthRuns == Cardinality({k \in 1..Len(log) : log[k] = "synth"})
plotRuns == Cardinality({k \in 1..Len(log) : log[k] = "plot"})

Snapshot == [homo |-> heap[X_homo], hetero |-> heap[X_hetero], data |-> data]

----------------------------------------------------------------------------
\* The kernel before any cell has run.
KernelInit ==
  /\ ns = {}
  /\ rng = 0
  /\ heap = [r \in {"sig", "homo", "hetero"} |-> 0]
  /\ U = 0
  /\ X = "none" /\ X_homo = "none" /\ X_hetero = "none"
  /\ sigmas = <<>>
  /\ n_components = <<>>
  /\ pca_scores = <<>> /\ fa_scores = <<>>
  /\ n_components_pca = 0 /\ n_components_fa = 0 /\ n_components_pca_mle = 0
  /\ title = "none" /\ data = <<>> /\ i = 0
  /\ fig = [title |-> "none", data |-> <<>>]
  /\ pc = "idle" /\ items = <<>> /\ it = 0
  /\ created = [sig |-> 0, homo |-> 0, hetero |-> 0, grid |-> <<>>]
  /\ finished = FALSE /\ first = <<>>
  /\ log = <<>>

SigmaIdle == u_draw = <<>> /\ sig_out = <<>>
SweepIdle ==
  /\ sw_X = "none" /\ sw_done = {} /\ sw_est = NewEstimators
  /\ sw_pca = <<>> /\ sw_fa = <<>>

Init ==
  /\ lib \in 0..(NumLibs - 1)
  /\ KernelInit
  /\ SigmaIdle
  /\ SweepIdle

\* Cell "Create the data".
SynthCell ==
  /\ pc = "idle"
  /\ synthRuns < MaxRuns
  /\ LET r == Synthesize(SeedRng)
     IN  /\ rng' = r.rng
         /\ U' = r.U
         /\ heap' = [sig |-> r.sig, homo |-> r.homo, hetero |-> r.hetero]
         /\ sigmas' = r.sigmas
         /\ created' = [created EXCEPT !.sig = r.sig, !.homo = r.homo,
                                       !.hetero = r.hetero]
  /\ X' = "sig" /\ X_homo' = "homo" /\ X_hetero' = "hetero"
  /\ ns' = ns \cup SynthNames
  /\ log' = Append(log, "synth")
  /\ UNCHANGED <<lib, n_components, pca_scores, fa_scores, n_components_pca,
                 n_components_fa, n_components_pca_mle, title, data, i, fig,
                 pc, items, it, finished, first, sigmaVars, sweepVars>>

\* Cell "Fit the models": the grid and the three functions.
FitCell ==
  /\ pc = "idle"
  /\ "n_features" \in ns
  /\ n_components' = Arange(0, n_features, GridStep)
  /\ created' = [created EXCEPT !.grid = n_components']
  /\ ns' = ns \cup FitNames
  /\ UNCHANGED <<lib, rng, heap, U, X, X_homo, X_hetero, sigmas, pca_scores,
                 fa_scores, n_components_pca, n_components_fa,
                 n_components_pca_mle, title, data, i, fig, pc, items, it,
                 finished, first, log, sigmaVars, sweepVars>>

\* Cell "Plot Results", up to the loop's first iteration.
PlotCellBegin ==
  /\ pc = "idle"
  /\ {"X_homo", "X_hetero", "rank", "compute_scores"} \subseteq ns
  /\ plotRuns < MaxRuns
  /\ data' = FreshData
  /\ i' = 0
  /\ items' = LoopItems
  /\ it' = 0
  /\ pc' = "loop"
  /\ finished' = FALSE
  /\ ns' = ns \cup {"data", "i"}
  /\ UNCHANGED <<lib, rng, heap, U, X, X_homo, X_hetero, sigmas, n_components,
                 pca_scores, fa_scores, n_components_pca, n_components_fa,
                 n_components_pca_mle, title, fig, created, first, log, sigmaVars, sweepVars>>

\* Cell "Plot Results" run before "Fit the models": the first iteration
\* binds X and title, and the call of compute_scores raises NameError.
PlotCellNameError ==
  /\ pc = "idle"
  /\ {"X_homo", "X_hetero"} \subseteq ns
  /\ "compute_scores" \notin ns
  /\ data' = FreshData
  /\ i' = 0
  /\ X' = X_homo
  /\ title' = HomoTitle
  /\ finished' = FALSE
  /\ ns' = ns \cup {"data", "i", "X", "title"}
  /\ UNCHANGED <<lib, rng, heap, U, X_homo, X_hetero, sigmas, n_components,
                 pca_scores, fa_scores, n_components_pca, n_components_fa,
                 n_components_pca_mle, fig, pc, items, it, created, first,
                 log, sigmaVars, sweepVars>>

\* One iteration of the loop: the whole body.
PlotLoopBody ==
  /\ pc = "loop"
  /\ it < Len(items)
  /\ LET ref == items[it + 1].ref
         xv  == heap[ref]
         sc  == ComputeScores(xv)
         ncp == n_components[NpArgMax(sc[1]) + 1]
         ncf == n_components[NpArgMax(sc[2]) + 1]
         h1  == FitLeavesData(heap, ref)
         mle == MleRank(xv)
     IN  /\ X' = ref
         /\ title' = items[it + 1].title
         /\ pca_scores' = sc[1]
         /\ fa_scores' = sc[2]
         /\ n_components_pca' = ncp
         /\ n_components_fa' = ncf
         /\ heap' = h1
         /\ n_components_pca_mle' = mle
         /\ data' = [data EXCEPT ![i + 1] =
                       @ \o Traces(ref, h1[ref], sc[1], sc[2], ncp, ncf, mle)]
  /\ i' = NextIndex(i)
  /\ it' = it + 1
  /\ ns' = ns \cup LoopNames
  /\ UNCHANGED <<lib, rng, U, X_homo, X_hetero, sigmas, n_components, fig, pc,
                 items, created, finished, first, log,
                 sigmaVars, sweepVars>>

\* The loop's list is exhausted: the cell ends.
PlotCellEnd ==
  /\ pc = "loop"
  /\ it = Len(items)
  /\ pc' = "idle"
  /\ finished' = TRUE
  /\ first' = IF first = <<>> THEN <<Snapshot>> ELSE first
  /\ log' = Append(log, "plot")
  /\ UNCHANGED <<lib, ns, rng, heap, U, X, X_homo, X_hetero, sigmas,
                 n_components, pca_scores, fa_scores, n_components_pca,
                 n_components_fa, n_components_pca_mle, title, data, i, fig,
                 items, it, created, sigmaVars, sweepVars>>

\* Cells "Homoscedastic Noise" and "Heteroscedastic Noise": the figures.
FigHomoCell ==
  /\ pc = "idle"
  /\ "data" \in ns
  /\ fig' = [title |-> HomoTitle, data |-> data[1]]
  /\ ns' = ns \cup {"layout", "fig"}
  /\ UNCHANGED <<lib, rng, heap, U, X, X_homo, X_hetero, sigmas, n_components,
                 pca_scores, fa_scores, n_components_pca, n_components_fa,
                 n_components_pca_mle, title, data, i, pc, items, it, created,
                 finished, first, log, sigmaVars, sweepVars>>

FigHeteroCell ==
  /\ pc = "idle"
  /\ "data" \in ns
  /\ fig' = [title |-> HeteroTitle, data |-> data[2]]
  /\ ns' = ns \cup {"layout", "fig"}
  /\ UNCHANGED <<lib, rng, heap, U, X, X_homo, X_hetero, sigmas, n_components,
                 pca_scores, fa_scores, n_components_pca, n_components_fa,
                 n_components_pca_mle, title, data, i, pc, items, it, created,
                 finished, first, log, sigmaVars, sweepVars>>

Next ==
  \/ SynthCell
  \/ FitCell
  \/ PlotCellBegin
  \/ PlotCellNameError
  \/ PlotLoopBody
  \/ PlotCellEnd
  \/ FigHomoCell
  \/ FigHeteroCell

Spec == Init /\ [][Next]_vars

----------------------------------------------------------------------------
\* The sigma formula of the synthesis cell on every draw rng.rand can return.
SigmaInit ==
  /\ lib = 0
  /\ KernelInit
  /\ SweepIdle
  /\ u_draw \in [1..SigmaFeatures -> RandValues]
  /\ sig_out = <<>>

SigmaStep ==
  /\ sig_out = <<>>
  /\ sig_out' = [j \in 1..SigmaFeatures |-> SigmaOf(u_draw[j])]
  /\ UNCHANGED <<lib, kernelVars, sweepVars, u_draw>>

SigmaNext == SigmaStep

SpecSigma == SigmaInit /\ [][SigmaNext]_vars

----------------------------------------------------------------------------
\* The body of compute_scores' loop applied to the grid points in any order,
\* each result stored at its grid index; the kernel is as the synthesis cell
\* and the fit cell leave it.
SweepInit ==
  /\ lib \in 0..(SweepLibs - 1)
  /\ LET r == Synthesize(SeedRng)
     IN  /\ rng = r.rng
         /\ U = r.U
         /\ heap = [sig |-> r.sig, homo |-> r.homo, hetero |-> r.hetero]
         /\ sigmas = r.sigmas
         /\ created = [sig |-> r.sig, homo |-> r.homo, hetero |-> r.hetero,
                       grid |-> Arange(0, n_features, GridStep)]
  /\ ns = SynthNames \cup FitNames
  /\ X = "sig" /\ X_homo = "homo" /\ X_hetero = "hetero"
  /\ n_components = Arange(0, n_features, GridStep)
  /\ pca_scores = <<>> /\ fa_scores = <<>>
  /\ n_components_pca = 0 /\ n_components_fa = 0 /\ n_components_pca_mle = 0
  /\ title = "none" /\ data = <<>> /\ i = 0
  /\ fig = [title |-> "none", data |-> <<>>]
  /\ pc = "idle" /\ items = <<>> /\ it = 0
  /\ finished = FALSE /\ first = <<>>
  /\ log = <<"synth">>
  /\ SigmaIdle
  /\ sw_X \in {"homo", "hetero"}
  /\ sw_done = {}
  /\ sw_est = NewEstimators
  /\ sw_pca = [k \in 1..Len(n_components) |-> 0]
  /\ sw_fa = [k \in 1..Len(n_components) |-> 0]

SweepStep ==
  \E k \in (1..Len(n_components)) \ sw_done :
    LET r == SweepIter(sw_est, n_components[k], heap[sw_X])
    IN  /\ sw_est' = r.est
        /\ sw_pca' = [sw_pca EXCEPT ![k] = r.p]
        /\ sw_fa' = [sw_fa EXCEPT ![k] = r.f]
        /\ sw_done' = sw_done \cup {k}
        /\ UNCHANGED <<lib, kernelVars, sigmaVars, sw_X>>

SweepNext == SweepStep

SpecSweep == SweepInit /\ [][SweepNext]_vars

----------------------------------------------------------------------------
\* Definitions the properties share.
Grid == 1..Len(n_components)
DataOf(d) == IF d = 1 THEN "homo" ELSE "hetero"
Fresh(kind, n) == [kind |-> kind, n_components |-> <<n>>]
Plotted(d) == "data" \in ns /\ Len(data[d]) >= 6
TraceOrder == <<"PCA scores", "FA scores", "TRUTH", "PCA CV", "FactorAnalysis CV",
                "PCA MLE", "Shrunk Covariance MLE", "LedoitWolf MLE">>
\* The first index of the maximum of s.
FirstMax(s) ==
  CHOOSE k \in 1..Len(s) : /\ \A j \in 1..Len(s) : s[j] <= s[k]
                           /\ \A j \in 1..(k - 1) : s[j] < s[k]
HalfSigma == (sigma * Pow2(MantBits)) \div 2

\* C1: once the loop cell has run to its end, every later completed state of
\* the kernel (the synthesis cell or the loop cell re-run any number of times)
\* holds the datasets, score series and selected ranks of the first run.
C1_Deterministic ==
  (first # <<>> /\ pc = "idle" /\ finished) => Snapshot = first[1]

C1_Witness ==
  /\ log = <<"synth", "plot", "synth", "plot">>
  /\ pc = "idle" /\ finished
  /\ heap["homo"] # heap["hetero"]

\* C2: for each dataset the two plotted score series have the grid's length
\* and their k-th elements are the mean cross-validated scores of a PCA and of
\* a FactorAnalysis configured with n_components = grid[k].
C2_Aligned ==
  \A d \in 1..2 :
    Plotted(d) =>
      /\ Len(data[d][1].y) = Len(n_components)
      /\ Len(data[d][2].y) = Len(n_components)
      /\ data[d][1].x = n_components /\ data[d][2].x = n_components
      /\ \A k \in Grid :
           /\ data[d][1].y[k] =
                NpMean(CrossValScore(Fresh("PCA", n_components[k]), heap[DataOf(d)]))
           /\ data[d][2].y[k] =
                NpMean(CrossValScore(Fresh("FactorAnalysis", n_components[k]),
                                     heap[DataOf(d)]))

C2_Witness ==
  /\ finished /\ Plotted(1) /\ Plotted(2)
  /\ data[1][1].y # data[1][2].y
  /\ data[1][1].y # data[2][1].y
  /\ \E j, k \in Grid : data[2][2].y[j] # data[2][2].y[k]

\* C4 (as amended): every per-feature standard deviation lies in the closed
\* range [sigma/2, 3*sigma/2], so none is zero or negative; the upper end is
\* reached only by the largest draw.
C4_ClosedRange ==
  \A j \in 1..Len(sig_out) :
    /\ sig_out[j] >= HalfSigma
    /\ sig_out[j] <= 3 * HalfSigma
    /\ sig_out[j] > 0
    /\ (sig_out[j] = 3 * HalfSigma => u_draw[j] = Pow2(MantBits) - 1)

\* C4 (as stated): every per-feature standard deviation lies in the half-open
\* range [sigma/2, 3*sigma/2).
C4_HalfOpenRange ==
  \A j \in 1..Len(sig_out) :
    /\ sig_out[j] >= HalfSigma
    /\ sig_out[j] < 3 * HalfSigma

C4_Witness ==
  /\ sig_out # <<>>
  /\ u_draw[1] = 0 /\ sig_out[1] = HalfSigma
  /\ u_draw[2] = Pow2(MantBits) - 1 /\ sig_out[2] = 3 * HalfSigma

\* C5 (as amended): the grid starts at 0, increases by the constant step and
\* ends at the last multiple of the step below the feature count; every grid
\* point, 0 included, is scored.
C5_GridBelowStop ==
  "n_components" \in ns =>
    /\ Len(n_components) >= 1
    /\ n_components[1] = 0
    /\ \A k \in 1..(Len(n_components) - 1) :
         n_components[k + 1] - n_components[k] = GridStep
    /\ n_components[Len(n_components)] < n_features
    /\ n_components[Len(n_components)] + GridStep >= n_features
    /\ ("pca_scores" \in ns =>
          Len(pca_scores) = Len(n_components) /\ Len(fa_scores) = Len(n_components))

\* C5 (as stated): the grid starts at 0, increases by the constant step and
\* its last element is the feature count.
C5_GridReachesStop ==
  "n_components" \in ns =>
    /\ n_components[1] = 0
    /\ \A k \in 1..(Len(n_components) - 1) :
         n_components[k + 1] - n_components[k] = GridStep
    /\ n_components[Len(n_components)] = n_features

C5_Witness ==
  /\ "n_components" \in ns /\ "pca_scores" \in ns
  /\ n_components[Len(n_components)] = n_features - GridStep

\* C6: when the loop cell has run to its end, data[0] and data[1] each hold
\* the eight traces in the fixed order, data[0]'s computed from X_homo and
\* data[1]'s from X_hetero, however often the cell has run; each figure is
\* built from the list of its own dataset.
C6_EightTraces ==
  /\ finished =>
       \A d \in 1..2 :
         /\ Len(data[d]) = 8
         /\ [t \in 1..8 |-> data[d][t].name] = TraceOrder
         /\ \A t \in 1..8 : data[d][t].from = DataOf(d)
  /\ fig.title = HomoTitle => \A t \in 1..Len(fig.data) : fig.data[t].from = "homo"
  /\ fig.title = HeteroTitle => \A t \in 1..Len(fig.data) : fig.data[t].from = "hetero"

C6_Witness ==
  /\ finished /\ plotRuns = 2
  /\ fig.title = HeteroTitle /\ Len(fig.data) = 8

\* C7 (as amended): the arrays are never mutated and X_homo, X_hetero and
\* n_components stay bound to what they were created with; X holds the signal
\* matrix until the loop cell rebinds it to X_homo and then to X_hetero.
C7_ArraysUnchanged ==
  /\ "X_hetero" \in ns =>
       /\ heap["sig"] = created.sig
       /\ heap["homo"] = created.homo
       /\ heap["hetero"] = created.hetero
       /\ X_homo = "homo" /\ X_hetero = "hetero"
       /\ X \in {"sig", "homo", "hetero"}
       /\ ("title" \notin ns => X = "sig")
  /\ "n_components" \in ns => n_components = created.grid

\* C7 (as stated): X, X_homo, X_hetero and n_components hold what they were
\* created with at every point through the end of the loop.
C7_NothingChanges ==
  /\ "X_hetero" \in ns =>
       /\ X = "sig" /\ heap[X] = created.sig
       /\ heap[X_homo] = created.homo
       /\ heap[X_hetero] = created.hetero
  /\ "n_components" \in ns => n_components = created.grid

C7_Witness ==
  /\ finished /\ pc = "idle" /\ X = "hetero"
  /\ heap["sig"] # heap["hetero"]

\* C8: for each dataset and family the plotted cross-validated best count is
\* the grid value at the first index of the maximum of the family's scores.
C8_FirstArgMax ==
  \A d \in 1..2 :
    Plotted(d) =>
      /\ data[d][4].x[1] = n_components[FirstMax(data[d][1].y)]
      /\ data[d][5].x[1] = n_components[FirstMax(data[d][2].y)]
      /\ data[d][4].num = <<data[d][4].x[1]>>
      /\ data[d][5].num = <<data[d][5].x[1]>>
      /\ \E k \in Grid : data[d][4].x[1] = n_components[k]
      /\ \A k \in Grid : data[d][1].y[k] <= data[d][1].y[FirstMax(data[d][1].y)]

C8_Witness ==
  \E d \in 1..2 :
    /\ Plotted(d)
    /\ \E j, k \in Grid : /\ j < k
                          /\ data[d][1].y[j] = PyMax(data[d][1].y)
                          /\ data[d][1].y[k] = PyMax(data[d][1].y)

C10_LinesCoverScores ==
  \A d \in 1..2 :
    Plotted(d) =>
      \A t \in 3..6 :
        /\ data[d][t].y[1] < data[d][t].y[2]
        /\ \A k \in Grid :
             /\ data[d][t].y[1] < data[d][1].y[k]
             /\ data[d][t].y[1] < data[d][2].y[k]
             /\ data[d][t].y[2] > data[d][1].y[k]
             /\ data[d][t].y[2] > data[d][2].y[k]

====
